---- MODULE Spec2Model ----
(***************************************************************************)
(* Model of importer.py: the iCal task importer for Todoist.               *)
(*                                                                         *)
(* The program is single threaded.  Its state is the TodoistAPI wrapper    *)
(* object (_command_count, _do_commit), the command queue of the remote    *)
(* session (self.api), the locals of main (project, new_items, the loop    *)
(* positions) and the locals of commit() (tries, response).  The program   *)
(* counter pc names the statement about to run; fn names the decorated     *)
(* method whose wrapper or body is running and commitRet the place         *)
(* commit() returns to.                                                    *)
(*                                                                         *)
(* The remote session is an external collaborator.  Its commit() hands     *)
(* the whole queue to the remote as one transaction, empties the queue and *)
(* returns the remote's answer; the answer is an input, drawn from         *)
(* Responses at every submission.                                          *)
(***************************************************************************)
EXTENDS Integers, Sequences, FiniteSets, TLC

\* ------------------------------------------------------------------------
\* Program constants
\* ------------------------------------------------------------------------

\* importer.py:41  "if self._command_count > 90"
Threshold == 90

\* importer.py:40  "The Todoist API has a command limit of 100 per commit."
ServerLimit == 100

\* importer.py:126
MAX_TRIES == 3

\* importer.py:134 and 140: the two error codes commit() retries on
RATE_LIMIT == 35
UNAVAILABLE == 40

\* ------------------------------------------------------------------------
\* Bounds of the model
\* ------------------------------------------------------------------------

\* the longest calendar: enough tasks for two threshold-forced flushes
\* during the add_item loop (two decorated calls per task)
MaxTasks == 92

\* the short calendar
FewTasks == 2

\* length of the calendars the field mapper is run on
MapperTasks == 1

\* ------------------------------------------------------------------------
\* Inputs
\* ------------------------------------------------------------------------

\* a DUE value: a zoned timestamp, seconds of local time and the zone's
\* offset from UTC in seconds
DueA == [local |-> 36000, utcoffset |-> 0]
DueB == [local |-> 3599, utcoffset |-> 3600]

\* VTODO components as main reads them from cal.walk('vtodo'): mappings
\* from the keys that are present to their values
DriverTasks ==
    << ("SUMMARY" :> "Buy milk"),
       ("SUMMARY" :> "Pay rent") @@ ("STATUS" :> "COMPLETED"),
       ("SUMMARY" :> "Call home") @@ ("STATUS" :> "NEEDS-ACTION")
           @@ ("DUE" :> DueA),
       ("SUMMARY" :> "Water plants") @@ ("STATUS" :> "COMPLETED")
           @@ ("DUE" :> DueB)
           @@ ("RRULE" :> (("FREQ" :> <<"DAILY">>) @@ ("COUNT" :> <<5>>))) >>

\* the calendars of the model: tasks alternate between two kinds
Calendars ==
    { << DriverTasks[a], DriverTasks[b] >> :
        a \in 1..Len(DriverTasks), b \in 1..Len(DriverTasks) }

\* the values of an RRULE: a rule without keys, with FREQ, with BYDAY,
\* with both, and with a key outside the allowed ones
Rules ==
    { << >>,
      ("FREQ" :> <<"DAILY">>),
      ("BYDAY" :> <<"MO">>),
      ("FREQ" :> <<"WEEKLY">>) @@ ("BYDAY" :> <<"MO">>),
      ("COUNT" :> <<5>>),
      ("FREQ" :> <<"DAILY">>) @@ ("COUNT" :> <<5>>) }

\* every shape of a VTODO component: DUE, STATUS and RRULE each absent or
\* present with one of their values
AllTasks ==
    { ("SUMMARY" :> "Buy milk") @@ d @@ s @@ r :
        d \in { << >> } \cup { ("DUE" :> v) : v \in {DueA, DueB} },
        s \in { << >> }
               \cup { ("STATUS" :> v) : v \in {"NEEDS-ACTION", "COMPLETED"} },
        r \in { << >> } \cup { ("RRULE" :> v) : v \in Rules } }

\* calendars for the field mapper: one kind of task, of any shape
MapperCalendars == { << t, t >> : t \in AllTasks }

CalLengths == {FewTasks, MaxTasks}

\* project names known to the remote after the initial sync
ProjectSets == { {}, {"Inbox", "tasks"}, {"Inbox", "Tasks"} }

ProjectNames == {"Tasks"}

\* answers of the remote to a submission: not a dict at all (None), a dict
\* without error_code, or a dict with an error_code
Responses ==
    { [dict |-> FALSE],
      [dict |-> TRUE],
      [dict |-> TRUE, error_code |-> RATE_LIMIT],
      [dict |-> TRUE, error_code |-> UNAVAILABLE],
      [dict |-> TRUE, error_code |-> 50] }

VARIABLES
    _do_commit,       \* self._do_commit
    _command_count,   \* self._command_count
    reminders,        \* args.reminders
    project_name,     \* args.project
    projects,         \* names of self.api.projects.all()
    cal,              \* the calendar: the two alternating task kinds
    calLen,           \* number of VTODO components in the calendar
    pc,               \* statement about to run
    fn,               \* decorated method being run
    commitRet,        \* where the running commit() returns to
    i,                \* main: index of the task of the add_item loop
    j,                \* main: index of the item of the add_reminder loop
    project,          \* main: the project handle
    item,             \* add_item: the handle returned by api.items.add
    new_items,        \* main: new_items
    tries,            \* commit: tries
    response,         \* commit: response
    queue,            \* self.api.queue: commands not yet submitted
    lastTx,           \* history: the transaction of the last submission
    lastTrigger,      \* history: call that forced it (0: explicit commit)
    issued,           \* history: every command queued so far, in order
    ncalls,           \* history: decorated invocations so far
    nflush,           \* history: commit() invocations made by the wrapper
    flushed,          \* history: the running call forced a flush
    rateRetries,      \* history: rate-limit retries of the running commit
    remoteContacted   \* history: api.commit() has been called

vars == << _do_commit, _command_count, reminders, project_name, projects,
           cal, calLen, pc, fn, commitRet, i, j, project, item, new_items,
           tries, response, queue, lastTx, lastTrigger, issued, ncalls,
           nflush, flushed, rateRetries, remoteContacted >>

\* ------------------------------------------------------------------------
\* Helpers
\* ------------------------------------------------------------------------

\* the k-th component of cal.walk('vtodo')
Task(k) == IF k % 2 = 1 THEN cal[1] ELSE cal[2]

\* dict.has_key / "key in mapping"
HasKey(m, k) == k \in DOMAIN m

\* a queued command: its type, the item (or 0 for the project) it is
\* about, the decorated invocation that queued it and the value of the
\* pending counter at that moment
Command(type, id) ==
    [type |-> type, id |-> id, call |-> ncalls, count |-> _command_count]

\* faulty variant: the command put at the head of the queue
Enqueue_AtFront(c) ==
    /\ queue' = << c >> \o queue
    /\ issued' = << c >> \o issued

\* self.api.<manager>.add(...) / item.close(): append to the session queue
Enqueue(c) ==
    /\ queue' = Append(queue, c)
    /\ issued' = Append(issued, c)

\* faulty variant: the limit mistyped, so that no call of a run reaches it
ExceedsThreshold_Mistyped(count) == count > 10 * Threshold

\* faulty variant: the flush already forced on reaching the threshold
ExceedsThreshold_AtThreshold(count) == count >= Threshold

\* importer.py:41
ExceedsThreshold(count) == count > Threshold

\* faulty variant: the dry-run switch ignored
CommitEnabled_IgnoresNoop == TRUE

\* faulty variant: the switch read the wrong way round
CommitEnabled_Inverted == _do_commit = FALSE

\* importer.py:125
CommitEnabled == _do_commit = TRUE

\* lower-casing of the project names of the model
Lower(name) == IF name = "Tasks" THEN "tasks" ELSE name

\* faulty variant: names compared without regard to case
NameMatches_IgnoreCase(name, wanted) == Lower(name) = Lower(wanted)

\* importer.py:51
NameMatches(name, wanted) == name = wanted

\* faulty variant: one retry too many
MayRetry_OffByOne(t) == t <= MAX_TRIES

\* importer.py:132: an error answer is looked at only while tries remain
MayRetry(t) == t < MAX_TRIES

\* importer.py:151
WithinTries(t) == t < MAX_TRIES

\* faulty variant: any STATUS closes the item
IsCompleted_AnyStatus(t) == HasKey(t, "STATUS")

\* importer.py:104; a missing STATUS raises KeyError, caught at line 107
IsCompleted(t) == HasKey(t, "STATUS") /\ t["STATUS"] = "COMPLETED"

\* ------------------------------------------------------------------------
\* Field mapper (add_item, lines 65-89)
\* ------------------------------------------------------------------------

\* strftime's %H and %M: two digits
TwoDigits(n) == IF n < 10 THEN "0" \o ToString(n) ELSE ToString(n)

\* DUE.dt.astimezone(UTC).strftime('%Y-%m-%dT%H:%M'): the date (as the
\* number of the day), the hour and the minute; the seconds are dropped
FormatUTC(due) ==
    LET utc == due.local - due.utcoffset
    IN  ToString(utc \div 86400) \o "T"
          \o TwoDigits((utc % 86400) \div 3600) \o ":"
          \o TwoDigits((utc % 3600) \div 60)

\* faulty variant: missing date fields defaulted to an empty value
DuePart_Defaulted(t) ==
    IF HasKey(t, "DUE")
    THEN ("due_date_utc" :> FormatUTC(t["DUE"]))
           @@ ("date_string" :> FormatUTC(t["DUE"]))
    ELSE ("due_date_utc" :> "") @@ ("date_string" :> "")

\* lines 67-71
DuePart(t) ==
    IF HasKey(t, "DUE")
    THEN ("due_date_utc" :> FormatUTC(t["DUE"]))
           @@ ("date_string" :> FormatUTC(t["DUE"]))
    ELSE << >>

\* lines 73-76
StatusPart(t) ==
    IF HasKey(t, "STATUS") THEN ("status" :> t["STATUS"]) ELSE << >>

\* lines 80-89: rrule['FREQ'] is read once per key of the rule, so a rule
\* without keys, or without FREQ (KeyError, caught), sets nothing
RecurrencePart(t) ==
    IF HasKey(t, "RRULE") /\ DOMAIN t["RRULE"] # {}
         /\ HasKey(t["RRULE"], "FREQ")
    THEN ("date_string" :> t["RRULE"]["FREQ"][1])
    ELSE << >>

\* faulty variant: the due date string kept when the task recurs
ItemInfo_DueWins(t) ==
    DuePart(t) @@ RecurrencePart(t) @@ ("has_notifications" :> TRUE)
        @@ StatusPart(t) @@ ("content" :> t["SUMMARY"])

\* td_item_info as passed to api.items.add; later assignments win
ItemInfo(t) ==
    RecurrencePart(t) @@ ("has_notifications" :> TRUE) @@ StatusPart(t)
        @@ DuePart(t) @@ ("content" :> t["SUMMARY"])

\* ------------------------------------------------------------------------
\* Initial state: TodoistAPI.__init__ has run, main is at line 178
\* ------------------------------------------------------------------------

Init ==
    /\ _do_commit \in BOOLEAN
    /\ _command_count = 0
    /\ reminders \in BOOLEAN
    /\ project_name \in ProjectNames
    /\ projects \in ProjectSets
    /\ cal \in Calendars
    /\ calLen \in CalLengths
    /\ pc = "main_get_project"
    /\ fn = "none"
    /\ commitRet = "none"
    /\ i = 1
    /\ j = 1
    /\ project = [name |-> "none", id |-> "none"]
    /\ item = [id |-> 0]
    /\ new_items = << >>
    /\ tries = 0
    /\ response = [dict |-> FALSE]
    /\ queue = << >>
    /\ lastTx = << >>
    /\ lastTrigger = 0
    /\ issued = << >>
    /\ ncalls = 0
    /\ nflush = 0
    /\ flushed = FALSE
    /\ rateRetries = 0
    /\ remoteContacted = FALSE

inputs == << _do_commit, reminders, project_name, projects, cal, calLen >>
commitLocals == << tries, response, rateRetries >>
remote == << queue, lastTx, lastTrigger, issued, remoteContacted >>
wrapperHist == << ncalls, nflush, flushed >>
mainLocals == << i, j, project, item, new_items >>

\* ------------------------------------------------------------------------
\* main
\* ------------------------------------------------------------------------

\* line 178 with get_project, lines 49-53: return the project of that
\* name, or call the decorated _create_project
MainGetProject ==
    /\ pc = "main_get_project"
    /\ IF \E p \in projects : NameMatches(p, project_name)
       THEN /\ project' = [name |-> project_name, id |-> "synced"]
            /\ pc' = "main_loop"
            /\ fn' = fn
       ELSE /\ project' = project
            /\ pc' = "wrapper"
            /\ fn' = "_create_project"
    /\ UNCHANGED << inputs, _command_count, commitRet, i, j, item,
                    new_items, commitLocals, remote, wrapperHist >>

\* faulty variant: the commit() after the add_item loop left out
MainLoop_NoCommit ==
    /\ pc = "main_loop"
    /\ IF i <= calLen
       THEN /\ pc' = "wrapper"
            /\ fn' = "add_item"
       ELSE /\ pc' = "main_reminders"
            /\ fn' = "none"
    /\ UNCHANGED << inputs, _command_count, commitRet, mainLocals,
                    commitLocals, remote, wrapperHist >>

\* lines 181-184: call add_item for the next task, or leave the loop and
\* call commit()
MainLoop ==
    /\ pc = "main_loop"
    /\ IF i <= calLen
       THEN /\ pc' = "wrapper"
            /\ fn' = "add_item"
            /\ commitRet' = commitRet
       ELSE /\ pc' = "commit"
            /\ fn' = "none"
            /\ commitRet' = "main_reminders"
    /\ UNCHANGED << inputs, _command_count, mainLocals, commitLocals,
                    remote, wrapperHist >>

\* lines 187-190: call add_reminder for the next new item, or call the
\* final commit()
MainReminders ==
    /\ pc = "main_reminders"
    /\ IF reminders /\ j <= Len(new_items)
       THEN /\ pc' = "wrapper"
            /\ fn' = "add_reminder"
            /\ commitRet' = commitRet
       ELSE /\ pc' = "commit"
            /\ fn' = "none"
            /\ commitRet' = "done"
    /\ UNCHANGED << inputs, _command_count, mainLocals, commitLocals,
                    remote, wrapperHist >>

\* ------------------------------------------------------------------------
\* _chunk_api
\* ------------------------------------------------------------------------

\* lines 38-43: count the call; above the threshold call commit()
Wrapper ==
    /\ pc = "wrapper"
    /\ _command_count' = _command_count + 1
    /\ ncalls' = ncalls + 1
    /\ IF ExceedsThreshold(_command_count')
       THEN /\ pc' = "commit"
            /\ commitRet' = "wrapper_reset"
            /\ nflush' = nflush + 1
            /\ flushed' = TRUE
       ELSE /\ pc' = "body"
            /\ commitRet' = commitRet
            /\ nflush' = nflush
            /\ flushed' = FALSE
    /\ UNCHANGED << inputs, fn, mainLocals, commitLocals, remote >>

\* faulty variant: the triggering call counted in the new batch
WrapperReset_CountsCall ==
    /\ pc = "wrapper_reset"
    /\ _command_count' = 1
    /\ pc' = "body"
    /\ UNCHANGED << inputs, fn, commitRet, mainLocals, commitLocals,
                    remote, wrapperHist >>

\* line 44, then line 45 enters the decorated function
WrapperReset ==
    /\ pc = "wrapper_reset"
    /\ _command_count' = 0
    /\ pc' = "body"
    /\ UNCHANGED << inputs, fn, commitRet, mainLocals, commitLocals,
                    remote, wrapperHist >>

\* ------------------------------------------------------------------------
\* The decorated methods
\* ------------------------------------------------------------------------

\* lines 58-60, and main keeps the result as project
CreateProject ==
    /\ pc = "body" /\ fn = "_create_project"
    /\ Enqueue(Command("project_add", 0))
    /\ project' = [name |-> project_name, id |-> "temp"]
    /\ pc' = "main_loop"
    /\ fn' = "none"
    /\ UNCHANGED << inputs, _command_count, commitRet, i, j, item,
                    new_items, commitLocals, lastTx, lastTrigger,
                    remoteContacted, wrapperHist >>

\* lines 65-96: map the task, queue the create command, call close_item
AddItem ==
    /\ pc = "body" /\ fn = "add_item"
    /\ Enqueue(Command("item_add", i))
    /\ item' = [id |-> i, project_id |-> project.id, data |-> ItemInfo(Task(i))]
    /\ pc' = "wrapper"
    /\ fn' = "close_item"
    /\ UNCHANGED << inputs, _command_count, commitRet, i, j, project,
                    new_items, commitLocals, lastTx, lastTrigger,
                    remoteContacted, wrapperHist >>

\* lines 103-110, then add_item returns the item (line 98) and main
\* appends it to new_items (line 183)
CloseItem ==
    /\ pc = "body" /\ fn = "close_item"
    /\ IF IsCompleted(Task(i))
       THEN Enqueue(Command("item_close", item.id))
       ELSE UNCHANGED << queue, issued >>
    /\ new_items' = Append(new_items, item)
    /\ i' = i + 1
    /\ pc' = "main_loop"
    /\ fn' = "none"
    /\ UNCHANGED << inputs, _command_count, commitRet, j, project, item,
                    commitLocals, lastTx, lastTrigger, remoteContacted,
                    wrapperHist >>

\* lines 115-121: the reminder is queued unless item['id'] raises KeyError;
\* the handler of that KeyError raises itself (line 119 formats two
\* placeholders from one value)
AddReminder ==
    /\ pc = "body" /\ fn = "add_reminder"
    /\ IF HasKey(new_items[j], "id")
       THEN /\ Enqueue(Command("reminder_add", new_items[j]["id"]))
            /\ pc' = "main_reminders"
       ELSE /\ UNCHANGED << queue, issued >>
            /\ pc' = "crashed"
    /\ j' = j + 1
    /\ fn' = "none"
    /\ UNCHANGED << inputs, _command_count, commitRet, i, project, item,
                    new_items, commitLocals, lastTx, lastTrigger,
                    remoteContacted, wrapperHist >>

\* ------------------------------------------------------------------------
\* commit
\* ------------------------------------------------------------------------

\* lines 125-127 and 156-157: in dry-run mode log and return
CommitEnter ==
    /\ pc = "commit"
    /\ IF CommitEnabled
       THEN /\ tries' = 0
            /\ rateRetries' = 0
            /\ pc' = "commit_submit"
       ELSE /\ UNCHANGED << tries, rateRetries >>
            /\ pc' = commitRet
    /\ UNCHANGED << inputs, _command_count, fn, commitRet, mainLocals,
                    response, remote, wrapperHist >>

\* line 129: response = self.api.commit()
CommitSubmit ==
    /\ pc = "commit_submit"
    /\ \E r \in Responses : response' = r
    /\ lastTx' = queue
    /\ lastTrigger' = IF commitRet = "wrapper_reset" THEN ncalls ELSE 0
    /\ queue' = << >>
    /\ remoteContacted' = TRUE
    /\ pc' = "commit_check"
    /\ UNCHANGED << inputs, _command_count, fn, commitRet, mainLocals,
                    tries, rateRetries, issued, wrapperHist >>

\* lines 131-150: a rate-limit answer is retried and counted, an
\* unavailable answer is retried and not counted, anything else leaves
\* the loop
CommitCheck ==
    /\ pc = "commit_check"
    /\ IF response.dict /\ HasKey(response, "error_code") /\ MayRetry(tries)
       THEN IF response.error_code = RATE_LIMIT
            THEN /\ tries' = tries + 1
                 /\ rateRetries' = rateRetries + 1
                 /\ pc' = "commit_submit"
            ELSE IF response.error_code = UNAVAILABLE
                 THEN /\ UNCHANGED << tries, rateRetries >>
                      /\ pc' = "commit_submit"
                 ELSE /\ UNCHANGED << tries, rateRetries >>
                      /\ pc' = "commit_end"
       ELSE /\ UNCHANGED << tries, rateRetries >>
            /\ pc' = "commit_end"
    /\ UNCHANGED << inputs, _command_count, fn, commitRet, mainLocals,
                    response, remote, wrapperHist >>

\* lines 151-155: report success and return (the locals of commit() go
\* out of scope), or sys.exit
CommitEnd ==
    /\ pc = "commit_end"
    /\ IF WithinTries(tries)
       THEN /\ pc' = commitRet
            /\ tries' = 0
            /\ response' = [dict |-> FALSE]
            /\ rateRetries' = 0
       ELSE /\ pc' = "exited"
            /\ UNCHANGED commitLocals
    /\ UNCHANGED << inputs, _command_count, fn, commitRet, mainLocals,
                    remote, wrapperHist >>

\* ------------------------------------------------------------------------
\* Specification
\* ------------------------------------------------------------------------

Next ==
    \/ MainGetProject
    \/ MainLoop
    \/ MainReminders
    \/ Wrapper
    \/ WrapperReset
    \/ CreateProject
    \/ AddItem
    \/ CloseItem
    \/ AddReminder
    \/ CommitEnter
    \/ CommitSubmit
    \/ CommitCheck
    \/ CommitEnd

Spec == Init /\ [][Next]_vars

\* the program always takes its next step while it has one; the answers of
\* the remote stay free
FairSpec == Spec /\ WF_vars(Next)

\* The field mapper on every shape of task: runs of main on calendars of
\* a single kind of task.  Such a run makes too few calls for the wrapper
\* to force a flush.
MapperInit ==
    /\ _do_commit \in BOOLEAN
    /\ _command_count = 0
    /\ reminders \in BOOLEAN
    /\ project_name \in ProjectNames
    /\ projects \in ProjectSets
    /\ cal \in MapperCalendars
    /\ calLen = MapperTasks
    /\ pc = "main_get_project"
    /\ fn = "none"
    /\ commitRet = "none"
    /\ i = 1
    /\ j = 1
    /\ project = [name |-> "none", id |-> "none"]
    /\ item = [id |-> 0]
    /\ new_items = << >>
    /\ tries = 0
    /\ response = [dict |-> FALSE]
    /\ queue = << >>
    /\ lastTx = << >>
    /\ lastTrigger = 0
    /\ issued = << >>
    /\ ncalls = 0
    /\ nflush = 0
    /\ flushed = FALSE
    /\ rateRetries = 0
    /\ remoteContacted = FALSE

MapperNext ==
    \/ MainGetProject
    \/ MainLoop
    \/ MainReminders
    \/ Wrapper
    \/ CreateProject
    \/ AddItem
    \/ CloseItem
    \/ AddReminder
    \/ CommitEnter
    \/ CommitSubmit
    \/ CommitCheck
    \/ CommitEnd

MapperSpec == MapperInit /\ [][MapperNext]_vars

TypeOK ==
    /\ _command_count \in 0..(Threshold + 1)
    /\ tries \in 0..MAX_TRIES
    /\ Len(queue) <= Len(issued)

\* ------------------------------------------------------------------------
\* Properties
\* ------------------------------------------------------------------------

\* no decorated call is inside its wrapper and no commit() is running
CallsSettled == pc \in {"body", "main_loop", "main_reminders", "done"}

\* a commit() invocation is running
InCommit == pc \in {"commit_submit", "commit_check", "commit_end"}

IsRateLimited(r) ==
    r.dict /\ HasKey(r, "error_code") /\ r.error_code = RATE_LIMIT

IsTransientError(r) ==
    r.dict /\ HasKey(r, "error_code")
        /\ r.error_code \in {RATE_LIMIT, UNAVAILABLE}

\* number of commands of a type queued so far for an item
Issued(type, id) ==
    Cardinality({ n \in 1..Len(issued) :
                    issued[n].type = type /\ issued[n].id = id })

IssuedOfType(type) ==
    Cardinality({ n \in 1..Len(issued) : issued[n].type = type })

CeilDiv(a, b) == (a + b - 1) \div b

\* C1: in commit mode every transaction handed to the remote, and the
\* batch queued since the previous submission, holds at most 100 commands.
C1_TransactionWithinLimit ==
    _do_commit => (Len(lastTx) <= ServerLimit /\ Len(queue) <= ServerLimit)

\* a forced flush has submitted a batch larger than the threshold
C1_Witness ==
    /\ _do_commit
    /\ lastTrigger # 0
    /\ Len(lastTx) = Threshold + 1

\* C2: a call that raises the counter above the threshold invokes commit()
\* and runs its own body only with the counter back at 0 and with none of
\* its commands in the transaction it forced; a call that leaves the
\* counter at or below the threshold goes to its body without a flush.
C2_FlushBeforeTriggeringCall ==
    /\ [][pc = "wrapper" =>
            IF _command_count + 1 > Threshold
            THEN pc' = "commit" /\ commitRet' = "wrapper_reset"
                   /\ nflush' = nflush + 1
            ELSE pc' = "body" /\ UNCHANGED << nflush, remote >>]_vars
    /\ []((pc = "body" /\ flushed) =>
            /\ _command_count = 0
            /\ \A n \in 1..Len(issued) : issued[n].call < ncalls)
    /\ [](lastTrigger # 0 =>
            \A n \in 1..Len(lastTx) : lastTx[n].call < lastTrigger)

\* the body of a call is about to run right after the flush it forced
C2_Witness ==
    /\ pc = "body"
    /\ flushed
    /\ _do_commit
    /\ lastTrigger = ncalls
    /\ Len(lastTx) >= Threshold

\* C3 as stated: more than 90 calls have forced exactly
\* ceil(calls / 90) flushes.
C3_CeilingFlushCount ==
    (CallsSettled /\ ncalls > Threshold)
        => nflush = CeilDiv(ncalls, Threshold)

\* C3, amended: N calls have forced exactly N div 91 flushes (every 91st
\* call forces one), and the body of a call that forced a flush runs with
\* the counter at 0.
C3_FloorFlushCount ==
    CallsSettled =>
        /\ nflush = ncalls \div (Threshold + 1)
        /\ (pc = "body" /\ flushed) => _command_count = 0

\* the second forced flush has been made
C3_Witness ==
    /\ CallsSettled
    /\ ncalls = 2 * (Threshold + 1)
    /\ nflush = 2
    /\ flushed

\* C4: in commit mode commit() returns normally only with the pending
\* counter at 0.
C4_CommitLeavesCounterZero ==
    [][(_do_commit /\ pc = "commit_end" /\ pc' = commitRet)
          => _command_count' = 0]_vars

\* C5: in dry-run mode nothing is ever submitted to the remote.
C5_DryRunNeverSubmits ==
    ~_do_commit => (~remoteContacted /\ lastTx = << >>)

\* a dry run has ended after its wrapper forced flushes and main called
\* commit() twice
C5_Witness ==
    /\ ~_do_commit
    /\ pc = "done"
    /\ nflush >= 2
    /\ Len(queue) > ServerLimit

\* C6: one commit() retries on a rate-limit answer at most 3 times; after
\* the third retry another rate-limit answer ends the process without a
\* further submission.
C6_RateLimitRetriesBounded ==
    /\ [](rateRetries <= MAX_TRIES)
    /\ [][(InCommit /\ pc # "commit_submit" /\ rateRetries = MAX_TRIES
              /\ IsRateLimited(response))
            => /\ pc' = IF pc = "commit_check" THEN "commit_end"
                                               ELSE "exited"
               /\ UNCHANGED remote]_vars
    /\ [][pc # "exited"]_vars

\* the process has ended on the rate-limit answer to the third retry
C6_Witness ==
    /\ pc = "exited"
    /\ rateRetries = MAX_TRIES
    /\ IsRateLimited(response)

\* C7: the process ends in commit() only if the last answer of the remote
\* was a transient error.
C7_FatalOnlyOnTransientError ==
    pc = "exited" => IsTransientError(response)

\* C8: every commit() invocation ends, by returning or by ending the
\* process.
C8_CommitTerminates ==
    (pc = "commit_submit") ~> ~InCommit

\* C9: add_item queues exactly one create command for its task, and one
\* close command for the same item if the task's STATUS is COMPLETED, none
\* otherwise.
C9_CreateAndCloseIfCompleted ==
    /\ IssuedOfType("item_add")
         = (i - 1) + (IF fn = "close_item" THEN 1 ELSE 0)
    /\ \A k \in {i - 1, i} \cap (1..calLen) :
         /\ Issued("item_add", k)
              = (IF k < i \/ fn = "close_item" THEN 1 ELSE 0)
         /\ Issued("item_close", k)
              = (IF /\ k < i
                    /\ HasKey(Task(k), "STATUS")
                    /\ Task(k)["STATUS"] = "COMPLETED"
                 THEN 1 ELSE 0)

\* add_item has returned for a COMPLETED task, for a task with another
\* STATUS and for a task without STATUS
C9_Witness ==
    /\ pc = "main_loop"
    /\ i > calLen
    /\ \E k \in 1..2 : /\ HasKey(Task(k), "STATUS")
                       /\ Task(k)["STATUS"] = "COMPLETED"
                       /\ Issued("item_close", k) = 1
    /\ \E k \in 1..2 : /\ ~HasKey(Task(k), "STATUS")
                       /\ Issued("item_add", k) = 1

\* C10: a reminder command is queued only for items whose task has a due
\* date.
C10_ReminderOnlyWithDue ==
    \A n \in 1..Len(issued) :
        issued[n].type = "reminder_add"
            => HasKey(Task(issued[n].id), "DUE")

\* add_item has built the handle of a task
ItemBuilt == item.id >= 1

\* the task's recurrence rule holds a frequency
HasFreq(t) == HasKey(t, "RRULE") /\ HasKey(t["RRULE"], "FREQ")

\* the UTC due dates of the model's DUE values, to the minute
ExpectedUTC(due) == IF due = DueA THEN "0T10:00" ELSE "-1T23:59"

\* C11: create commands are queued in the order of the calendar's tasks,
\* and the close command of a task directly follows its own create
\* command, before the create command of the next task.
C11_QueuedInCalendarOrder ==
    \A n \in 1..Len(issued) :
        /\ issued[n].type = "item_add" =>
             IF issued[n].id = 1
             THEN \A m \in 1..(n - 1) : issued[m].type = "project_add"
             ELSE /\ n > 1
                  /\ issued[n - 1].type \in {"item_add", "item_close"}
                  /\ issued[n - 1].id = issued[n].id - 1
        /\ issued[n].type = "item_close" =>
             /\ n > 1
             /\ issued[n - 1].type = "item_add"
             /\ issued[n - 1].id = issued[n].id

\* task A without STATUS, then task B COMPLETED: create A, create B,
\* close B
C11_Witness ==
    /\ ~HasKey(Task(1), "STATUS")
    /\ \E n \in 1..Len(issued) :
         /\ n + 2 <= Len(issued)
         /\ issued[n].type = "item_add" /\ issued[n].id = 1
         /\ issued[n + 1].type = "item_add" /\ issued[n + 1].id = 2
         /\ issued[n + 2].type = "item_close" /\ issued[n + 2].id = 2

\* C12: add_reminder runs, and a reminder command exists, only after the
\* add_item loop has ended and, in commit mode, every create and close
\* command has been handed to the remote; a fatal end of the commit()
\* after the loop leaves no reminder command queued, ever.
C12_RemindersAfterTaskCommit ==
    /\ (fn = "add_reminder" \/ IssuedOfType("reminder_add") > 0) =>
         /\ i > calLen
         /\ IssuedOfType("item_add") = calLen
         /\ _do_commit =>
              /\ remoteContacted
              /\ \A n \in 1..Len(queue) : queue[n].type = "reminder_add"
    /\ (pc = "exited" /\ commitRet = "main_reminders") =>
         IssuedOfType("reminder_add") = 0

\* the first add_reminder is about to queue its command in commit mode
C12_Witness ==
    /\ _do_commit
    /\ pc = "body"
    /\ fn = "add_reminder"
    /\ j = 1
    /\ calLen > FewTasks
    /\ queue = << >>

\* C13 as stated: the payload of a task without DUE has neither
\* due_date_utc nor date_string.
C13_NoDueNoDateFields ==
    (ItemBuilt /\ ~HasKey(Task(item.id), "DUE")) =>
        /\ ~HasKey(item.data, "due_date_utc")
        /\ ~HasKey(item.data, "date_string")

\* C13, amended: the payload of a task without DUE has no due_date_utc,
\* and has a date_string exactly when the task's rule holds FREQ, the
\* frequency token then.
C13_NoDueDateStringOnlyFromFreq ==
    (ItemBuilt /\ ~HasKey(Task(item.id), "DUE")) =>
        /\ ~HasKey(item.data, "due_date_utc")
        /\ HasKey(item.data, "date_string") <=> HasFreq(Task(item.id))
        /\ HasFreq(Task(item.id)) =>
             item.data["date_string"] = Task(item.id)["RRULE"]["FREQ"][1]

\* a recurring task without DUE has been mapped
C13_Witness ==
    /\ ItemBuilt
    /\ ~HasKey(Task(item.id), "DUE")
    /\ HasFreq(Task(item.id))
    /\ HasKey(Task(item.id), "STATUS")
    /\ pc = "done"

\* C14: with FREQ in the rule date_string is the frequency token, with or
\* without DUE; due_date_utc is the UTC due date whenever DUE is present;
\* without FREQ date_string is due_date_utc, or absent without DUE; and the
\* create command is queued whatever keys the rule holds.
C14_RecurrenceOverridesDateString ==
    ItemBuilt =>
        /\ HasFreq(Task(item.id)) =>
             /\ HasKey(item.data, "date_string")
             /\ item.data["date_string"] = Task(item.id)["RRULE"]["FREQ"][1]
        /\ HasKey(Task(item.id), "DUE") =>
             /\ HasKey(item.data, "due_date_utc")
             /\ item.data["due_date_utc"] = ExpectedUTC(Task(item.id)["DUE"])
        /\ (~HasFreq(Task(item.id)) /\ HasKey(Task(item.id), "DUE")) =>
             /\ HasKey(item.data, "date_string")
             /\ item.data["date_string"] = item.data["due_date_utc"]
        /\ (~HasFreq(Task(item.id)) /\ ~HasKey(Task(item.id), "DUE")) =>
             ~HasKey(item.data, "date_string")
        /\ Issued("item_add", item.id) = 1

\* a task with DUE, FREQ and a key outside the allowed ones has been mapped
C14_Witness ==
    /\ ItemBuilt
    /\ HasKey(Task(item.id), "DUE")
    /\ HasFreq(Task(item.id))
    /\ HasKey(Task(item.id)["RRULE"], "COUNT")
    /\ item.data["date_string"] = "DAILY"
    /\ item.data["due_date_utc"] = "-1T23:59"

\* get_project has returned to main
GetProjectDone == pc # "main_get_project" /\ fn # "_create_project"

\* C15: get_project queues a create-project command exactly when no known
\* project has the wanted name; when one has, it is returned with the
\* pending counter, the queue and the remote untouched and without a flush.
C15_ProjectCreatedIffUnknown ==
    /\ [](IssuedOfType("project_add")
            = IF GetProjectDone /\ project_name \notin projects
              THEN 1 ELSE 0)
    /\ [](GetProjectDone => project.name = project_name)
    /\ [][(pc = "main_get_project" /\ project_name \in projects) =>
            /\ pc' = "main_loop"
            /\ UNCHANGED << _command_count, remote, wrapperHist >>]_vars

\* a project whose name differs only in case is known: a new one is made
C15_Witness ==
    /\ GetProjectDone
    /\ projects = {"Inbox", "tasks"}
    /\ IssuedOfType("project_add") = 1
    /\ project.id = "temp"

\* C16 as stated: in every mode at most 100 commands are queued and not
\* submitted.
C16_QueueBoundedInEveryMode ==
    Len(queue) <= ServerLimit

\* C16, amended: in commit mode at most 100 commands are queued and not
\* submitted; in dry-run mode every command ever queued stays queued.
C16_QueueBoundedInCommitMode ==
    /\ _do_commit => Len(queue) <= ServerLimit
    /\ ~_do_commit => queue = issued

\* commit mode holds its largest batch
C16_Witness ==
    /\ _do_commit
    /\ Len(queue) = Threshold + 1

\* the task of a queued command is COMPLETED
CommandOfCompleted(c) ==
    HasKey(Task(c.id), "STATUS") /\ Task(c.id)["STATUS"] = "COMPLETED"

\* the transaction holds the close command of an item
ClosedInTx(tx, id) ==
    \E m \in 1..Len(tx) : tx[m].type = "item_close" /\ tx[m].id = id

\* C17 as stated: a transaction with the create command of a COMPLETED
\* task holds its close command too.
C17_CreateAndCloseTogether ==
    \A n \in 1..Len(lastTx) :
        (lastTx[n].type = "item_add" /\ CommandOfCompleted(lastTx[n]))
            => ClosedInTx(lastTx, lastTx[n].id)

\* C17, amended: a transaction with the create command of a COMPLETED task
\* holds its close command too, unless the create was queued with the
\* counter at the threshold (add_item called at 89): then close_item's
\* wrapper flushes, the create ends its transaction and the close is not
\* in it.
C17_TogetherUnlessCloseFlushes ==
    \A n \in 1..Len(lastTx) :
        (lastTx[n].type = "item_add" /\ CommandOfCompleted(lastTx[n])) =>
            IF lastTx[n].count = Threshold
            THEN /\ n = Len(lastTx)
                 /\ lastTrigger = lastTx[n].call + 1
                 /\ ~ClosedInTx(lastTx, lastTx[n].id)
            ELSE ClosedInTx(lastTx, lastTx[n].id)

\* a forced flush has submitted creates together with their closes
C17_Witness ==
    /\ lastTrigger # 0
    /\ Len(lastTx) > Threshold
    /\ CommandOfCompleted(lastTx[Len(lastTx)])
    /\ lastTx[Len(lastTx)].type = "item_close"
    /\ lastTx[Len(lastTx) - 1].type = "item_add"

\* C18: commit() returns normally only if the last answer of the remote
\* carried no error_code.
C18_SuccessOnlyWithoutErrorCode ==
    [][(pc = "commit_end" /\ pc' = commitRet)
          => ~HasKey(response, "error_code")]_vars
====
